---- MODULE Spec2Model ----
(***************************************************************************)
(* Delivery of one exported record as a OneNote page through the Graph     *)
(* API: GraphClient.create_onenote_page (the create POST followed by the   *)
(* append PATCHes), the shared retry loop _request_with_retry, and the     *)
(* older single-request clients that truncate the parts instead of         *)
(* appending.                                                              *)
(***************************************************************************)
EXTENDS Integers, Sequences, FiniteSets, TLC

\* ------------------------------------------------------------------ bounds

\* Largest number of anchors (placeholders) a generated record body holds.
MaxSegments == 7
\* Largest number of records the batch loop of main() is followed through.
MaxRecords == 2
\* Largest number of seconds a numeric Retry-After header carries.
MaxRetryAfter == 2

\* ------------------------------------------------------- program constants

\* services/graph_client.py:345  MAX_BIN_PER_REQUEST = 3
MAX_BIN_PER_REQUEST == 3
\* main/graph_client.py:119 and 1_scan/main.py:55-56  parts[:5]
LEGACY_MAX_PARTS == 5
\* GraphRetryPolicy.max_retries
max_retries == 5
\* GraphRetryPolicy.default_retry_after
default_retry_after == 2
\* GraphRetryPolicy.retry_statuses
retry_statuses == {429, 503}

\* The three delivery clients of the repository.
Clients == {"services", "legacy", "scan"}

\* -------------------------------------------------------------- responses

\* Status codes the server answers with: success, the two retryable ones,
\* the authentication failure, a client error and a server error.
Statuses == {200, 401, 404, 500} \cup retry_statuses

\* The Retry-After header of a response: absent, delta-seconds, or an
\* HTTP-date (RFC 7231 allows both forms).
NoHeader == [form |-> "absent", seconds |-> 0]
DateHeader == [form |-> "http-date", seconds |-> 0]
RetryAfterHeaders ==
    {NoHeader, DateHeader}
        \cup {[form |-> "seconds", seconds |-> n] : n \in 1..MaxRetryAfter}

NoResponse == [status |-> 0, retry_after |-> NoHeader, has_id |-> FALSE]

\* What session.request can return.  Only a retryable response carries a
\* Retry-After header; only a success response carries a JSON body, which
\* holds the page "id" or does not.
Responses ==
    {[status |-> s, retry_after |-> h, has_id |-> FALSE] :
        s \in retry_statuses, h \in RetryAfterHeaders}
    \cup {[status |-> s, retry_after |-> NoHeader, has_id |-> FALSE] :
        s \in Statuses \ (retry_statuses \cup {200})}
    \cup {[status |-> 200, retry_after |-> NoHeader, has_id |-> b] :
        b \in BOOLEAN}

\* requests.Response.raise_for_status raises for 400 <= status < 600.
RaisesForStatus(status) == status >= 400 /\ status < 600

\* Mutant of IsRetryStatus: every server error is taken as retryable.
IsRetryStatusAnyServerError(status) == status \in retry_statuses \/ status >= 500

\* resp.status_code in self._retry.retry_statuses
IsRetryStatus(status) == status \in retry_statuses

\* int(resp.headers.get("Retry-After", default_retry_after)): the value when
\* int() accepts it; int() raises ValueError on an HTTP-date.
IntParses(h) == h.form \in {"absent", "seconds"}

RetryAfterSeconds(h) ==
    IF h.form = "absent" THEN default_retry_after ELSE h.seconds

\* ------------------------------------------------------------- page payload

Min(a, b) == IF a < b THEN a ELSE b

\* Python's s[a:b] on a list, 0-based, clamped to the list.
Slice(s, a, b) == SubSeq(s, a + 1, Min(b, Len(s)))

KindOf(i) == IF i % 2 = 1 THEN "image" ELSE "attachment"

\* models.Segment, reduced to its anchor id and kind.
Segment(i) == [segment_id |-> i, kind |-> KindOf(i)]

\* An empty anchor-bearing placeholder <div data-id='i'></div>.
Placeholder(i) == [data_id |-> i, inner |-> << >>]

RECURSIVE SegmentsOf(_, _, _)
SegmentsOf(k, skip, i) ==
    IF i > k THEN << >>
    ELSE (IF i = skip THEN << >> ELSE <<Segment(i)>>) \o SegmentsOf(k, skip, i + 1)

\* models.PagePayload for a record whose walk emitted anchors 1..k, of which
\* anchor `skip` (0: none) is an unresolved attachment reference: it keeps
\* its placeholder in the body and has no Segment.
PagePayload(k, skip) ==
    [body_html |-> [i \in 1..k |-> Placeholder(i)],
     segment_list |-> SegmentsOf(k, skip, 1)]

Payloads == {PagePayload(k, skip) : k \in 0..MaxSegments, skip \in 0..MaxSegments}

NoPayload == PagePayload(0, 0)

\* f"{name_prefix}{i}"
PartName(name_prefix, i) == <<name_prefix, i>>

\* segments_body._segment_content_html: the embed markup for a segment,
\* an <img> or an <object> whose source is name:<part_name>.
segment_content_html(seg, part_name) ==
    [tag |-> IF seg.kind = "image" THEN "img" ELSE "object", src |-> part_name]

\* pat.subn(..., count=1): fill the first empty div whose data-id is sid.
RECURSIVE SubnFirst(_, _, _, _)
SubnFirst(out, sid, content, i) ==
    IF i > Len(out) THEN out
    ELSE IF out[i].data_id = sid /\ out[i].inner = << >>
         THEN [out EXCEPT ![i].inner = <<content>>]
         ELSE SubnFirst(out, sid, content, i + 1)

\* Mutant of InjectBody: every empty placeholder is filled.
InjectBodyFillsAll(out, segments, i) ==
    [k \in 1..Len(out) |->
        IF out[k].inner = << >>
        THEN [out[k] EXCEPT !.inner = <<[tag |-> "img", src |-> PartName("p", k)]>>]
        ELSE out[k]]

RECURSIVE InjectBody(_, _, _)
InjectBody(out, segments, i) ==
    IF i > Len(segments) THEN out
    ELSE InjectBody(
            SubnFirst(out, segments[i].segment_id,
                      segment_content_html(segments[i], PartName("p", i)), 1),
            segments, i + 1)

\* Mutant of inject_first_segments: the parts are numbered from p2 on.
inject_first_segments_from_two(body_html, segments) ==
    [body_html |-> InjectBody(body_html, segments, 1),
     parts |-> [i \in 1..Len(segments) |->
                  [name |-> PartName("p", i + 1),
                   segment_id |-> segments[i].segment_id]]]

\* segments_body._inject_first_segments: (body_html, parts).
inject_first_segments(body_html, segments) ==
    [body_html |-> InjectBody(body_html, segments, 1),
     parts |-> [i \in 1..Len(segments) |->
                  [name |-> PartName("p", i),
                   segment_id |-> segments[i].segment_id]]]

\* Mutant of FirstSeg: the first chunk cut at the five the comments speak of.
FirstSegOfFive(all_segments) == Slice(all_segments, 0, LEGACY_MAX_PARTS)

\* all_segments[:MAX_BIN_PER_REQUEST]
FirstSeg(all_segments) == Slice(all_segments, 0, MAX_BIN_PER_REQUEST)

\* Mutant of RestSeg: the rest starts one element early.
RestSegFromLast(all_segments) ==
    Slice(all_segments, MAX_BIN_PER_REQUEST - 1, Len(all_segments))

\* all_segments[MAX_BIN_PER_REQUEST:]
RestSeg(all_segments) == Slice(all_segments, MAX_BIN_PER_REQUEST, Len(all_segments))

\* Mutant of Chunk: chunks of five cut at a stride of three.
ChunkOfFive(rest, o) == Slice(rest, o, o + LEGACY_MAX_PARTS)

\* restSeg[off : off + MAX_BIN_PER_REQUEST]
Chunk(rest, o) == Slice(rest, o, o + MAX_BIN_PER_REQUEST)

NoParts == [doc |-> "none", body_html |-> << >>, commands |-> << >>, bins |-> << >>]

\* The data_parts of the create POST of create_onenote_page (services):
\* the Presentation part and one binary part per first-chunk segment.
CreateDataParts(payload) ==
    LET inj == inject_first_segments(payload.body_html, FirstSeg(payload.segment_list))
    IN [doc |-> "Presentation", body_html |-> inj.body_html,
        commands |-> << >>, bins |-> inj.parts]

\* list(parts)[:5] of the older clients.
LimitedParts(parts) == Slice(parts, 0, LEGACY_MAX_PARTS)

\* The files of the older clients' create POST: the body as rendered and the
\* first five parts under their own names.
LegacyDataParts(payload) ==
    LET limited == LimitedParts(payload.segment_list)
    IN [doc |-> "Presentation", body_html |-> payload.body_html,
        commands |-> << >>,
        bins |-> [i \in 1..Len(limited) |->
                    [name |-> PartName(limited[i].kind, limited[i].segment_id),
                     segment_id |-> limited[i].segment_id]]]

\* Mutant of UpdateDataParts: every part of the request is named p1.
UpdateDataPartsOneName(segments) ==
    [doc |-> "Commands", body_html |-> << >>,
     commands |-> [i \in 1..Len(segments) |->
                     [target |-> segments[i].segment_id, action |-> "append",
                      content |-> segment_content_html(segments[i], PartName("p", 1))]],
     bins |-> [i \in 1..Len(segments) |->
                 [name |-> PartName("p", 1),
                  segment_id |-> segments[i].segment_id]]]

\* The data_parts update_onenote_page_segments builds for a chunk: one
\* command and one binary part per segment, then the Commands part.
UpdateDataParts(segments) ==
    [doc |-> "Commands", body_html |-> << >>,
     commands |-> [i \in 1..Len(segments) |->
                     [target |-> segments[i].segment_id, action |-> "append",
                      content |-> segment_content_html(segments[i], PartName("p", i))]],
     bins |-> [i \in 1..Len(segments) |->
                 [name |-> PartName("p", i),
                  segment_id |-> segments[i].segment_id]]]

\* The binary-part ceiling each client applies.
Ceiling(c) == IF c = "services" THEN MAX_BIN_PER_REQUEST ELSE LEGACY_MAX_PARTS

\* --------------------------------------------------------------- the walk

\* config.RICH_FIELDS, in its order.
RICH_FIELDS == <<"Agenda", "Detail", "Detail_1", "Fd_Link_1", "Parmanent",
                 "Reason", "Temporary">>

\* The rich fields render_syogai_db_html places in the body, in the order
\* it places them.
RenderedFields == <<"Detail", "Reason", "Temporary", "Parmanent">>

\* The keys of BINARY_TAG_TO_MIME.
BINARY_TAG_TO_MIME == {"gif", "png", "jpeg", "jpg"}

\* The names attachment_by_name resolves for the record in hand.
attachment_by_name == {"a.xlsx"}

\* The file names an attachmentref may carry: resolved, unresolved, none.
AttrefNames == {"a.xlsx", "gone.pdf", ""}

\* The base64 texts of a picture child: decodable, undecodable, empty.
WellFormedB64 == {"iVBORw0K"}
PictureData == WellFormedB64 \cup {"iVBORw0", ""}

\* base64.b64decode(data): the bytes, or binascii.Error on bad padding.
b64decode(data) ==
    IF data \in WellFormedB64 THEN [raises |-> FALSE, bytes |-> data]
    ELSE [raises |-> TRUE, bytes |-> ""]

\* A picture element is the sequence of its children.
PngPicture == <<[tag |-> "png", data |-> "iVBORw0K"]>>
UndecodablePicture == <<[tag |-> "png", data |-> "iVBORw0"]>>
NotesbitmapPicture == <<[tag |-> "notesbitmap", data |-> "iVBORw0K"]>>
EmptyGifPicture == <<[tag |-> "gif", data |-> ""]>>
BitmapAndJpegPicture ==
    <<[tag |-> "notesbitmap", data |-> "iVBORw0K"], [tag |-> "jpeg", data |-> "iVBORw0K"]>>
Pictures == {PngPicture, UndecodablePicture, NotesbitmapPicture, EmptyGifPicture,
             BitmapAndJpegPicture}

\* A child element of a richtext item: a paragraph with its text, its
\* pictures and its attachmentrefs, a table, or any other element.
Par(text, pictures, attrefs) ==
    [tag |-> "par", text |-> text, pictures |-> pictures, attrefs |-> attrefs]

TextNodes == {Par("a", << >>, << >>), Par("", << >>, << >>)}
PictureNodes == {Par("", <<pic>>, << >>) : pic \in Pictures}
AttrefShapes ==
    {<<"a.xlsx">>, <<"gone.pdf">>, <<"">>, <<"gone.pdf", "a.xlsx">>,
     <<"a.xlsx", "a.xlsx", "a.xlsx", "a.xlsx">>}
AttrefNodes ==
    {Par("see", << >>, refs) : refs \in AttrefShapes}
        \cup {Par("", <<PngPicture>>, <<"a.xlsx">>)}
TableNode == [tag |-> "table", text |-> "cell", pictures |-> <<PngPicture>>,
              attrefs |-> << >>]
PardefNode == [tag |-> "pardef", text |-> "", pictures |-> << >>,
               attrefs |-> << >>]
\* Cells of the widest table a document holds.
MaxCells == 6

\* A table whose cells each hold a picture.
GalleryNode == [tag |-> "table", text |-> "",
                pictures |-> [c \in 1..MaxCells |-> PngPicture],
                attrefs |-> << >>]
Nodes == TextNodes \cup PictureNodes \cup AttrefNodes
            \cup {TableNode, GalleryNode, PardefNode}

\* A body element that is no anchor: escaped text in a tag.
Markup(tag, text) ==
    [data_id |-> 0, inner |-> <<[tag |-> tag, src |-> <<text, 0>>]>>]

\* make_anchor(seg_id): the empty div whose data-id is the anchor id.
make_anchor(seg_id) == Placeholder(seg_id)

\* Mutant of attref_to_segment: a Segment for every name.
attref_to_segment_unconditional(filename, seg_id) ==
    <<[segment_id |-> seg_id, kind |-> "attachment"]>>

\* _attref_to_segment: the Segment of a resolved name, nothing otherwise.
attref_to_segment(filename, seg_id) ==
    IF filename \in attachment_by_name
    THEN <<[segment_id |-> seg_id, kind |-> "attachment"]>>
    ELSE << >>

\* Mutant of _picture_to_segment: any child with data decides.
RECURSIVE picture_to_segment_any_tag(_, _, _)
picture_to_segment_any_tag(pic, seg_id, c) ==
    IF c > Len(pic) THEN << >>
    ELSE IF pic[c].data = ""
         THEN picture_to_segment_any_tag(pic, seg_id, c + 1)
         ELSE IF b64decode(pic[c].data).raises THEN << >>
              ELSE <<[segment_id |-> seg_id, kind |-> "image"]>>

\* _picture_to_segment: the first child with a supported tag and data
\* decides; data that does not decode gives nothing.
RECURSIVE picture_to_segment(_, _, _)
picture_to_segment(pic, seg_id, c) ==
    IF c > Len(pic) THEN << >>
    ELSE IF pic[c].tag \notin BINARY_TAG_TO_MIME \/ pic[c].data = ""
         THEN picture_to_segment(pic, seg_id, c + 1)
         ELSE IF b64decode(pic[c].data).raises THEN << >>
              ELSE <<[segment_id |-> seg_id, kind |-> "image"]>>

\* The locals of richtext_item_to_html_and_segment between two children.
Locals(o, segs, i, tries) ==
    [out |-> o, segment_list |-> segs, seg_i |-> i, attempts |-> tries]

\* Mutant of AttrefLoop: an anchor only for a ref that resolves.
RECURSIVE AttrefLoopResolvedOnly(_, _, _)
AttrefLoopResolvedOnly(attrefs, r, st) ==
    IF r > Len(attrefs) THEN st
    ELSE IF attrefs[r] = "" THEN AttrefLoopResolvedOnly(attrefs, r + 1, st)
         ELSE AttrefLoopResolvedOnly(attrefs, r + 1,
                Locals(IF attrefs[r] \in attachment_by_name
                       THEN Append(st.out, make_anchor(st.seg_i)) ELSE st.out,
                       st.segment_list \o attref_to_segment(attrefs[r], st.seg_i),
                       st.seg_i + 1,
                       st.attempts + 1))

\* The attachmentref loop of a paragraph: a nameless ref is skipped; every
\* other ref gets an anchor and the counter moves on, resolved or not.
RECURSIVE AttrefLoop(_, _, _)
AttrefLoop(attrefs, r, st) ==
    IF r > Len(attrefs) THEN st
    ELSE IF attrefs[r] = "" THEN AttrefLoop(attrefs, r + 1, st)
         ELSE AttrefLoop(attrefs, r + 1,
                Locals(Append(st.out, make_anchor(st.seg_i)),
                       st.segment_list \o attref_to_segment(attrefs[r], st.seg_i),
                       st.seg_i + 1,
                       st.attempts + 1))

\* Mutant of PictureBranch: the counter rises only when the picture gave
\* a Segment.
PictureBranchCountsSegments(pictures, st) ==
    LET segs == picture_to_segment(pictures[1], st.seg_i, 1)
    IN Locals(Append(st.out, make_anchor(st.seg_i)),
              st.segment_list \o segs,
              st.seg_i + Len(segs),
              st.attempts + 1)

\* The picture branch of a paragraph: the first picture gets an anchor and
\* the counter moves on, extracted or not.
PictureBranch(pictures, st) ==
    Locals(Append(st.out, make_anchor(st.seg_i)),
           st.segment_list \o picture_to_segment(pictures[1], st.seg_i, 1),
           st.seg_i + 1,
           st.attempts + 1)

\* Mutant of WalkChild: a picture in a table cell is segmented like one in
\* a paragraph.
WalkChildSegmentsTables(child, st) ==
    IF child.tag = "par"
    THEN IF child.attrefs # << >> THEN AttrefLoop(child.attrefs, 1, st)
         ELSE IF child.pictures # << >> THEN PictureBranch(child.pictures, st)
         ELSE [st EXCEPT !.out = Append(st.out, Markup("p", child.text))]
    ELSE IF child.tag = "table"
         THEN IF child.pictures # << >> THEN PictureBranch(child.pictures, st)
              ELSE [st EXCEPT !.out = Append(st.out, Markup("table", child.text))]
         ELSE st

\* One pass of the loop over the children of the richtext element.
WalkChild(child, st) ==
    IF child.tag = "par"
    THEN IF child.attrefs # << >> THEN AttrefLoop(child.attrefs, 1, st)
         ELSE IF child.pictures # << >> THEN PictureBranch(child.pictures, st)
         ELSE [st EXCEPT !.out = Append(st.out, Markup("p", child.text))]
    ELSE IF child.tag = "table"
         THEN [st EXCEPT !.out = Append(st.out, Markup("table", child.text))]
         ELSE st

\* The note before the walk: no rich field holds an anchor.
NoNote == [f \in {RICH_FIELDS[k] : k \in 1..Len(RICH_FIELDS)} |-> << >>]

\* render_syogai_db_html: the rich fields it places, each under its title.
RECURSIVE RenderFields(_, _)
RenderFields(n, k) ==
    IF k = 0 THEN << >>
    ELSE RenderFields(n, k - 1)
            \o <<Markup("h2", RenderedFields[k])>> \o n[RenderedFields[k]]

\* build_page_payload: the rendered body and the walk's segments.
build_page_payload(n, segments) ==
    [body_html |-> RenderFields(n, Len(RenderedFields)),
     segment_list |-> segments]

\* The data_parts create_onenote_page hands to the client when every
\* request succeeds: the create request, then one update per chunk.
RECURSIVE AppendRequests(_, _)
AppendRequests(rest, o) ==
    IF o >= Len(rest) THEN << >>
    ELSE <<UpdateDataParts(Chunk(rest, o))>>
            \o AppendRequests(rest, o + MAX_BIN_PER_REQUEST)

DeliveryRequests(payload) ==
    <<CreateDataParts(payload)>> \o AppendRequests(RestSeg(payload.segment_list), 0)

\* ------------------------------------------------- the walk, older walker

\* rich_fields as the older main() passes it.
rich_fields == <<"Detail", "Reason", "Temporary", "Parmanent">>

\* part_prefix of a field in dxl_to_onenote_payload.
part_prefix(field_name) == <<field_name, "_img_">>

\* The locals of _richtext_item_to_html_and_parts between two children;
\* raises is TRUE once an exception left the loop.
LegacyLocals(o, ps, r) == [out |-> o, parts |-> ps, raises |-> r]

\* dxl_to_payload._picture_to_html_and_parts: the first child with a
\* supported tag and data is decoded, stored as a part and shown as an img;
\* the decoding is not guarded.
RECURSIVE picture_to_html_and_parts(_, _, _, _)
picture_to_html_and_parts(pic, field_name, parts, c) ==
    IF c > Len(pic) THEN [raises |-> FALSE, html |-> << >>, parts |-> parts]
    ELSE IF pic[c].tag \notin BINARY_TAG_TO_MIME \/ pic[c].data = ""
         THEN picture_to_html_and_parts(pic, field_name, parts, c + 1)
         ELSE IF b64decode(pic[c].data).raises
              THEN [raises |-> TRUE, html |-> << >>, parts |-> parts]
              ELSE LET part_name == PartName(part_prefix(field_name), Len(parts) + 1)
                   IN [raises |-> FALSE,
                       html |-> <<[data_id |-> 0,
                                   inner |-> <<[tag |-> "img", src |-> part_name]>>]>>,
                       parts |-> Append(parts, [name |-> part_name,
                                                origin_field |-> field_name])]

\* The attachmentref loop of the older walker: an object for a name with a
\* slot, a "not sent" note for any other name, nothing for a nameless ref.
\* dxl_to_payload._attachment_object_html: the object that embeds the
\* part of the given name.
attachment_object_html(part_name) ==
    [data_id |-> 0, inner |-> <<[tag |-> "object", src |-> part_name]>>]

\* attachment_slots of the image pass: no attachment has a slot yet.
NoSlots == [fn \in {} |-> << >>]

RECURSIVE LegacyAttrefLoop(_, _, _, _)
LegacyAttrefLoop(attrefs, attachment_slots, r, o) ==
    IF r > Len(attrefs) THEN o
    ELSE IF attrefs[r] = "" THEN LegacyAttrefLoop(attrefs, attachment_slots, r + 1, o)
         ELSE LegacyAttrefLoop(attrefs, attachment_slots, r + 1,
                Append(o, IF attrefs[r] \in DOMAIN attachment_slots
                          THEN attachment_object_html(attachment_slots[attrefs[r]])
                          ELSE Markup("unsent", attrefs[r])))

\* dxl_to_payload._table_to_html, the loop over the cells that hold a
\* picture: an img and a part for a picture with usable data, a note for a
\* picture without; the decoding may raise.
RECURSIVE LegacyTableCells(_, _, _, _)
LegacyTableCells(cell_pictures, field_name, c, r) ==
    IF c > Len(cell_pictures) \/ r.raises THEN r
    ELSE LET p == picture_to_html_and_parts(cell_pictures[c], field_name, r.parts, 1)
         IN LegacyTableCells(cell_pictures, field_name, c + 1,
                [raises |-> p.raises,
                 cells |-> r.cells \o
                    (IF p.html # << >> THEN p.html[1].inner
                     ELSE <<[tag |-> "td", src |-> <<"unsupported", 0>>]>>),
                 parts |-> p.parts])

\* One pass of the loop over the children of the richtext element.
LegacyWalkChild(child, field_name, attachment_slots, st) ==
    IF child.tag = "par"
    THEN IF child.attrefs # << >>
         THEN [st EXCEPT !.out =
                LegacyAttrefLoop(child.attrefs, attachment_slots, 1,
                    IF child.text # "" THEN Append(st.out, Markup("p", child.text))
                    ELSE st.out)]
         ELSE IF child.pictures # << >>
         THEN LET r == picture_to_html_and_parts(child.pictures[1], field_name,
                                                 st.parts, 1)
              IN LegacyLocals(st.out \o r.html, r.parts, r.raises)
         ELSE [st EXCEPT !.out =
                Append(st.out, IF child.text # "" THEN Markup("p", child.text)
                               ELSE Markup("p", "<br/>"))]
    ELSE IF child.tag = "table"
         THEN IF child.pictures # << >>
              THEN LET r == LegacyTableCells(child.pictures, field_name, 1,
                                [raises |-> FALSE, cells |-> << >>,
                                 parts |-> st.parts])
                   IN LegacyLocals(
                        Append(st.out, [data_id |-> 0, inner |-> r.cells]),
                        r.parts, r.raises)
              ELSE [st EXCEPT !.out = Append(st.out, Markup("td", child.text))]
         ELSE st

\* ------------------------------------------------------------------ state

\* ------------------------------ dxl_to_onenote_payload after the image pass

\* dxl_to_payload.MAX_BINARY_PARTS_PER_PAGE
MAX_BINARY_PARTS_PER_PAGE == 5

\* The $FILE attachments of the document, in document order.
attachment_objs_all == <<"a.xlsx">>

\* No richtext child was read yet.
NoDxl == [f \in {rich_fields[k] : k \in 1..Len(rich_fields)} |-> << >>]

\* No create request was built yet.
NoFiles == [Presentation |-> << >>, parts |-> NoSlots]

\* The names of the attachment references of the children, in order.
RECURSIVE FieldAttrefNames(_, _)
FieldAttrefNames(children, k) ==
    IF k = 0 THEN << >>
    ELSE FieldAttrefNames(children, k - 1)
            \o SelectSeq(children[k].attrefs, LAMBDA fn : fn # "")

\* [x for x in names if not (x in seen or seen.add(x))]
RECURSIVE KeepFirst(_, _)
KeepFirst(names, k) ==
    IF k = 0 THEN << >>
    ELSE LET before == KeepFirst(names, k - 1)
         IN IF \E j \in 1..Len(before) : before[j] = names[k] THEN before
            ELSE Append(before, names[k])

\* attref_names_in_body: the referenced names over the rich fields, in
\* order of appearance, each once.
RECURSIVE AttrefNamesUpTo(_, _)
AttrefNamesUpTo(doc, f) ==
    IF f = 0 THEN << >>
    ELSE AttrefNamesUpTo(doc, f - 1)
            \o FieldAttrefNames(doc[rich_fields[f]], Len(doc[rich_fields[f]]))

attref_names_in_body(doc) ==
    LET names == AttrefNamesUpTo(doc, Len(rich_fields))
    IN KeepFirst(names, Len(names))

\* send_names: the referenced names that resolve, then the other
\* attachments if slots are left, cut to the slots the images left.
send_names(doc, parts_all) ==
    LET remain == IF MAX_BINARY_PARTS_PER_PAGE > Len(parts_all)
                  THEN MAX_BINARY_PARTS_PER_PAGE - Len(parts_all) ELSE 0
        referenced == SelectSeq(attref_names_in_body(doc),
                                LAMBDA fn : fn \in attachment_by_name)
        others == SelectSeq(attachment_objs_all,
                    LAMBDA fn : \A j \in 1..Len(referenced) : referenced[j] # fn)
        candidates == IF Len(referenced) < remain THEN referenced \o others
                      ELSE referenced
    IN Slice(candidates, 0, remain)

\* The name of the part of the i-th attachment sent, f"att{i}".
SlotName(i) == PartName(<<"", "att">>, i)

\* attachment_slots = {fn: f"att{i}" for i, fn in enumerate(send_names, start=1)}
SlotsOf(names) ==
    [fn \in {names[i] : i \in 1..Len(names)} |->
        SlotName(CHOOSE i \in 1..Len(names) :
                    names[i] = fn /\ \A j \in (i + 1)..Len(names) : names[j] # fn)]

\* _attachments_to_parts: one part per attachment sent, named by its slot.
attachments_to_parts(names, name_map) ==
    [i \in 1..Len(names) |-> [name |-> name_map[names[i]], origin_field |-> "$FILE"]]

\* _richtext_item_to_html_and_parts over the children of a field.
RECURSIVE richtext_item_to_html_and_parts(_, _, _, _)
richtext_item_to_html_and_parts(children, field_name, attachment_slots, k) ==
    IF k = 0 THEN LegacyLocals(<< >>, << >>, FALSE)
    ELSE LegacyWalkChild(children[k], field_name, attachment_slots,
            richtext_item_to_html_and_parts(children, field_name,
                                            attachment_slots, k - 1))

\* The second pass of dxl_to_onenote_payload and its return value: the
\* field markup made again with the slots, the image parts followed by the
\* attachment parts, cut to the ceiling.
dxl_to_onenote_payload(doc, n, parts_all) ==
    LET names == send_names(doc, parts_all)
        attachment_slots == SlotsOf(names)
    IN [note |-> [f \in DOMAIN n |->
                    IF f \in DOMAIN doc
                    THEN richtext_item_to_html_and_parts(doc[f], f, attachment_slots,
                                                         Len(doc[f])).out
                    ELSE n[f]],
        parts |-> Slice(parts_all \o attachments_to_parts(names, attachment_slots),
                        0, MAX_BINARY_PARTS_PER_PAGE)]

\* renderer_rich._nl2br on markup: html.escape turns every element into text.
nl2br(field_html) ==
    [k \in 1..Len(field_html) |->
        [data_id |-> 0,
         inner |-> [j \in 1..Len(field_html[k].inner) |->
                        [tag |-> "text", src |-> field_html[k].inner[j].src]]]]

\* renderer_rich.render_incident_like_page, the rich fields of the body:
\* Detail and Reason go in as markup, Temporary and Parmanent are escaped.
render_incident_like_page(n) ==
    n["Detail"] \o n["Reason"] \o nl2br(n["Temporary"]) \o nl2br(n["Parmanent"])

\* main/graph_client.GraphClient.create_onenote_page: the files of the
\* request, the body and at most five parts keyed by their names.
create_files(body_html, parts) ==
    LET limited_parts == LimitedParts(parts)
    IN [Presentation |-> body_html,
        parts |-> [nm \in {limited_parts[i].name : i \in 1..Len(limited_parts)} |->
                    limited_parts[CHOOSE i \in 1..Len(limited_parts) :
                        /\ limited_parts[i].name = nm
                        /\ \A j \in (i + 1)..Len(limited_parts) :
                                limited_parts[j].name # nm]]]

VARIABLES
    client,        \* which client this run of main() uses
    pc,            \* position of the single thread
    started,       \* records whose delivery was started
    created,       \* main(): created
    page_payload,  \* the PagePayload of the record in delivery
    restSeg,       \* create_onenote_page: restSeg
    off,           \* create_onenote_page: off of the append loop
    page_id,       \* create_onenote_page: TRUE once page["id"] was read
    method,        \* _request_with_retry: method
    data_parts,    \* _request_multipart: data_parts of the request in hand
    attempt,       \* _request_with_retry: attempt
    resp,          \* _request_with_retry: resp
    raised,        \* the exception that ended the delivery ("" while none)
    requests_log,  \* history: the logical requests of this record, in order
    sent,          \* history: HTTP requests sent for this record, per method
    answers,       \* history: responses to this record's POSTs, per class
    sleeps,        \* history: time.sleep calls of the current call
    last_wait      \* history: argument of the last time.sleep of the call

VARIABLES
    walker,        \* which walker builds the page material
    wpc,           \* position of the walk
    field_i,       \* create_materials_from_dxl: index of field_name in RICH_FIELDS
    seg_i,         \* the anchor counter threaded through the fields
    out,           \* richtext_item_to_html_and_segment: out of the field in hand
    segment_list,  \* richtext_item_to_html_and_segment: segment_list
    note,          \* the rich-field values written back to the note
    all_segment,   \* create_materials_from_dxl: all_segment
    node,          \* the child element the walk handled last
    walked,        \* history: child elements handled so far
    attempts,      \* history: binary extractions attempted so far
    malformed,     \* history: a malformed child element was handled
    wire           \* history: the data_parts of an all-success delivery

VARIABLES
    dxl,           \* the richtext children dxl_to_onenote_payload read, per field
    files          \* main/graph_client.create_onenote_page: files of its request

walk_vars == <<walker, wpc, field_i, seg_i, out, segment_list, note,
               all_segment, node, walked, attempts, malformed, wire, dxl, files>>

vars == <<client, pc, started, created, page_payload, restSeg, off, page_id,
          method, data_parts, attempt, resp, raised, requests_log, sent,
          answers, sleeps, last_wait, walk_vars>>

main_vars == <<client, started, created, page_payload, walk_vars>>
create_vars == <<restSeg, off, page_id>>
history_vars == <<requests_log, sent, answers, sleeps, last_wait>>

\* No walk is in hand.
NoWalk ==
    /\ walker = "services"
    /\ wpc = "idle"
    /\ field_i = 1
    /\ seg_i = 1
    /\ out = << >>
    /\ segment_list = << >>
    /\ note = NoNote
    /\ all_segment = << >>
    /\ node = PardefNode
    /\ walked = 0
    /\ attempts = 0
    /\ malformed = FALSE
    /\ wire = << >>
    /\ dxl = NoDxl
    /\ files = NoFiles

NoSent == [POST |-> 0, PATCH |-> 0]
NoAnswers == [retryable |-> 0, success |-> 0]

Init ==
    /\ client \in Clients
    /\ pc = "idle"
    /\ started = 0
    /\ created = 0
    /\ page_payload = NoPayload
    /\ restSeg = << >>
    /\ off = 0
    /\ page_id = FALSE
    /\ method = "POST"
    /\ data_parts = NoParts
    /\ attempt = 0
    /\ resp = NoResponse
    /\ raised = ""
    /\ requests_log = << >>
    /\ sent = NoSent
    /\ answers = NoAnswers
    /\ sleeps = 0
    /\ last_wait = 0
    /\ NoWalk

\* Mutant of EnterRequest: an append goes on with the counter the call
\* before it left behind.
EnterRequestSharedBudget(m, parts, log) ==
    /\ method' = m
    /\ data_parts' = parts
    /\ attempt' = IF m = "POST" THEN 1 ELSE attempt
    /\ resp' = NoResponse
    /\ sleeps' = 0
    /\ last_wait' = 0
    /\ requests_log' = Append(log,
            [method |-> m, bins |-> parts.bins, outcome |-> "inflight"])
    /\ pc' = "loop"

\* A logical request entering _request_with_retry: the loop starts at
\* attempt 1 with no response yet.  `log` is the record's history so far.
EnterRequest(m, parts, log) ==
    /\ method' = m
    /\ data_parts' = parts
    /\ attempt' = 1
    /\ resp' = NoResponse
    /\ sleeps' = 0
    /\ last_wait' = 0
    /\ requests_log' = Append(log,
            [method |-> m, bins |-> parts.bins, outcome |-> "inflight"])
    /\ pc' = "loop"

\* The outcome of the logical request in hand, written to the history.
Settle(outcome) == [requests_log EXCEPT ![Len(requests_log)].outcome = outcome]

\* The exception propagates out of create_onenote_page.
Raise(exc) ==
    /\ pc' = "raised"
    /\ raised' = exc
    /\ requests_log' = Settle("failed")

\* main(): the next record of the batch is built and create_onenote_page is
\* called; the call runs up to its first session.request.  The services
\* client is driven by the same loop as the older ones.
StartRecord ==
    /\ pc = "idle"
    /\ started < MaxRecords
    /\ \E p \in Payloads :
        /\ page_payload' = p
        /\ restSeg' = IF client = "services" THEN RestSeg(p.segment_list) ELSE << >>
        /\ EnterRequest("POST",
                IF client = "services" THEN CreateDataParts(p) ELSE LegacyDataParts(p),
                << >>)
    /\ started' = started + 1
    /\ off' = 0
    /\ page_id' = FALSE
    /\ raised' = ""
    /\ sent' = NoSent
    /\ answers' = NoAnswers
    /\ UNCHANGED <<client, created, walk_vars>>

\* resp = self._session.request(...): one HTTP request goes out and the
\* server's response comes back, or the transport raises (a connection
\* error, a timeout) and the exception leaves the call.
SessionRequest ==
    /\ pc = "loop"
    /\ attempt <= max_retries
    /\ sent' = [sent EXCEPT ![method] = @ + 1]
    /\ \/ /\ \E r \in Responses : resp' = r
          /\ answers' = IF method = "POST" /\ IsRetryStatus(resp'.status)
                        THEN [answers EXCEPT !.retryable = @ + 1]
                        ELSE IF method = "POST" /\ ~RaisesForStatus(resp'.status)
                        THEN [answers EXCEPT !.success = @ + 1]
                        ELSE answers
          /\ pc' = "recv"
          /\ UNCHANGED <<raised, requests_log>>
       \/ /\ Raise("ConnectionError")
          /\ UNCHANGED <<resp, answers>>
    /\ UNCHANGED <<main_vars, create_vars, method, data_parts, attempt,
                   sleeps, last_wait>>

\* Mutant of RetryableResponse: the attempt is not counted.
RetryableResponseUncounted ==
    /\ pc = "recv"
    /\ IsRetryStatus(resp.status)
    /\ pc' = "loop"
    /\ UNCHANGED <<main_vars, create_vars, method, data_parts, attempt, resp,
                   raised, history_vars>>

\* if resp.status_code in retry_statuses: wait = int(Retry-After or default);
\* time.sleep(wait); continue.  int() raises ValueError on a header that is
\* no integer, before any sleep.
RetryableResponse ==
    /\ pc = "recv"
    /\ IsRetryStatus(resp.status)
    /\ \/ /\ IntParses(resp.retry_after)
          /\ sleeps' = sleeps + 1
          /\ last_wait' = RetryAfterSeconds(resp.retry_after)
          /\ attempt' = attempt + 1
          /\ pc' = "loop"
          /\ UNCHANGED <<raised, requests_log>>
       \/ /\ ~IntParses(resp.retry_after)
          /\ Raise("ValueError")
          /\ UNCHANGED <<sleeps, last_wait, attempt>>
    /\ UNCHANGED <<main_vars, create_vars, method, data_parts, resp, sent, answers>>

\* Mutant of Unauthorized: a 401 is waited out and retried like a 429.
UnauthorizedRetried ==
    /\ pc = "recv"
    /\ ~IsRetryStatus(resp.status)
    /\ resp.status = 401
    /\ sleeps' = sleeps + 1
    /\ last_wait' = default_retry_after
    /\ attempt' = attempt + 1
    /\ pc' = "loop"
    /\ UNCHANGED <<main_vars, create_vars, method, data_parts, resp, raised,
                   requests_log, sent, answers>>

\* if resp.status_code == 401: raise RuntimeError("401 Unauthorized. ...")
Unauthorized ==
    /\ pc = "recv"
    /\ ~IsRetryStatus(resp.status)
    /\ resp.status = 401
    /\ Raise("Unauthorized")
    /\ UNCHANGED <<main_vars, create_vars, method, data_parts, attempt, resp,
                   sent, answers, sleeps, last_wait>>

\* Mutant of RaiseForStatus: an append that fails is recorded and the loop
\* of create_onenote_page goes on with the next chunk.
RaiseForStatusSkipsChunk ==
    /\ pc = "recv"
    /\ ~IsRetryStatus(resp.status)
    /\ resp.status /= 401
    /\ RaisesForStatus(resp.status)
    /\ \/ /\ method = "PATCH"
          /\ requests_log' = Settle("failed")
          /\ off' = off + MAX_BIN_PER_REQUEST
          /\ pc' = "append_loop"
          /\ UNCHANGED raised
       \/ /\ method = "POST"
          /\ Raise("HTTPError")
          /\ UNCHANGED off
    /\ UNCHANGED <<main_vars, restSeg, page_id, method, data_parts, attempt, resp,
                   sent, answers, sleeps, last_wait>>

\* try: resp.raise_for_status() except: ... raise
RaiseForStatus ==
    /\ pc = "recv"
    /\ ~IsRetryStatus(resp.status)
    /\ resp.status /= 401
    /\ RaisesForStatus(resp.status)
    /\ Raise("HTTPError")
    /\ UNCHANGED <<main_vars, create_vars, method, data_parts, attempt, resp,
                   sent, answers, sleeps, last_wait>>

\* Mutant of ReturnResponse: the return is missing, so the loop sends the
\* request again after a success until the attempts run out.
ReturnResponseKeepsLooping ==
    /\ pc = "recv"
    /\ ~IsRetryStatus(resp.status)
    /\ resp.status /= 401
    /\ ~RaisesForStatus(resp.status)
    /\ attempt' = attempt + 1
    /\ pc' = "loop"
    /\ UNCHANGED <<main_vars, create_vars, method, data_parts, resp,
                   raised, history_vars>>

\* return resp
ReturnResponse ==
    /\ pc = "recv"
    /\ ~IsRetryStatus(resp.status)
    /\ resp.status /= 401
    /\ ~RaisesForStatus(resp.status)
    /\ pc' = "ret"
    /\ UNCHANGED <<main_vars, create_vars, method, data_parts, attempt, resp,
                   raised, history_vars>>

\* The for loop ran out of attempts:
\* raise RuntimeError(f"{method} failed after retries (429/503).")
RetriesExhausted ==
    /\ pc = "loop"
    /\ attempt > max_retries
    /\ Raise("RetriesExhausted")
    /\ UNCHANGED <<main_vars, create_vars, method, data_parts, attempt, resp,
                   sent, answers, sleeps, last_wait>>

\* Mutant of CreateReturned: the id is read with page.get("id"), so a body
\* without an id does not stop the appends.
CreateReturnedWithoutId ==
    /\ pc = "ret"
    /\ method = "POST"
    /\ \/ /\ client = "services"
          /\ page_id' = resp.has_id
          /\ requests_log' = Settle("ok")
          /\ pc' = "append_loop"
          /\ UNCHANGED raised
       \/ /\ client /= "services"
          /\ requests_log' = Settle("ok")
          /\ pc' = "returned"
          /\ UNCHANGED <<page_id, raised>>
    /\ UNCHANGED <<main_vars, restSeg, off, method, data_parts, attempt, resp,
                   sent, answers, sleeps, last_wait>>

\* create_onenote_page after the POST returned: res.raise_for_status();
\* page = res.json(); page_id = page["id"] (KeyError without an id).  The
\* older clients return response.json() as it is.
CreateReturned ==
    /\ pc = "ret"
    /\ method = "POST"
    /\ \/ /\ client = "services"
          /\ resp.has_id
          /\ page_id' = TRUE
          /\ requests_log' = Settle("ok")
          /\ pc' = "append_loop"
          /\ UNCHANGED raised
       \/ /\ client = "services"
          /\ ~resp.has_id
          /\ pc' = "raised"
          /\ raised' = "KeyError"
          /\ requests_log' = Settle("ok")
          /\ UNCHANGED page_id
       \/ /\ client /= "services"
          /\ requests_log' = Settle("ok")
          /\ pc' = "returned"
          /\ UNCHANGED <<page_id, raised>>
    /\ UNCHANGED <<main_vars, restSeg, off, method, data_parts, attempt, resp,
                   sent, answers, sleeps, last_wait>>

\* Mutant of AppendLoop: the chunk is cut off the payload's own list.
AppendLoopConsumesPayload ==
    /\ pc = "append_loop"
    /\ \/ /\ off < Len(restSeg)
          /\ EnterRequest("PATCH", UpdateDataParts(Chunk(restSeg, off)), requests_log)
          /\ page_payload' =
                [page_payload EXCEPT !.segment_list =
                    Slice(@, 0, MAX_BIN_PER_REQUEST + off)
                        \o Slice(@, 2 * MAX_BIN_PER_REQUEST + off, Len(@))]
          /\ UNCHANGED <<client, started, created, walk_vars, create_vars, raised,
                         sent, answers>>
       \/ /\ off >= Len(restSeg)
          /\ pc' = "returned"
          /\ UNCHANGED <<main_vars, create_vars, method, data_parts, attempt,
                         resp, raised, history_vars>>

\* for off in range(0, len(restSeg), MAX_BIN_PER_REQUEST): the next chunk is
\* cut and update_onenote_page_segments sends it; return page after the last.
AppendLoop ==
    /\ pc = "append_loop"
    /\ \/ /\ off < Len(restSeg)
          /\ EnterRequest("PATCH", UpdateDataParts(Chunk(restSeg, off)), requests_log)
          /\ UNCHANGED <<main_vars, create_vars, raised, sent, answers>>
       \/ /\ off >= Len(restSeg)
          /\ pc' = "returned"
          /\ UNCHANGED <<main_vars, create_vars, method, data_parts, attempt,
                         resp, raised, history_vars>>

\* Mutant of UpdateReturned: the loop strides by five, as its comment says.
UpdateReturnedStrideFive ==
    /\ pc = "ret"
    /\ method = "PATCH"
    /\ requests_log' = Settle("ok")
    /\ off' = off + LEGACY_MAX_PARTS
    /\ pc' = "append_loop"
    /\ UNCHANGED <<main_vars, restSeg, page_id, method, data_parts, attempt,
                   resp, raised, sent, answers, sleeps, last_wait>>

\* update_onenote_page_segments after the PATCH returned:
\* res.raise_for_status(), then back to the loop of create_onenote_page.
UpdateReturned ==
    /\ pc = "ret"
    /\ method = "PATCH"
    /\ requests_log' = Settle("ok")
    /\ off' = off + MAX_BIN_PER_REQUEST
    /\ pc' = "append_loop"
    /\ UNCHANGED <<main_vars, restSeg, page_id, method, data_parts, attempt,
                   resp, raised, sent, answers, sleeps, last_wait>>

\* main(): created += 1 and the loop goes on to the next record.
RecordDone ==
    /\ pc = "returned"
    /\ created' = created + 1
    /\ pc' = "idle"
    /\ UNCHANGED <<client, started, page_payload, walk_vars, create_vars, method,
                   data_parts, attempt, resp, raised, history_vars>>

\* main(): the exception leaves the for loop through the finally clause.
Abort ==
    /\ pc = "raised"
    /\ pc' = "aborted"
    /\ UNCHANGED <<main_vars, create_vars, method, data_parts, attempt, resp,
                   raised, history_vars>>

Next ==
    \/ StartRecord
    \/ SessionRequest
    \/ RetryableResponse
    \/ Unauthorized
    \/ RaiseForStatus
    \/ ReturnResponse
    \/ RetriesExhausted
    \/ CreateReturned
    \/ AppendLoop
    \/ UpdateReturned
    \/ RecordDone
    \/ Abort

Spec == Init /\ [][Next]_vars

\* ------------------------------------------------------- the walk, actions

\* The bound on the child elements of one document.
MaxNodes == 2

Walkers == {"services", "legacy"}

\* The fields the walker in hand loops over.
FieldsOf(w) == IF w = "services" THEN RICH_FIELDS ELSE rich_fields

delivery_vars == <<pc, started, created, restSeg, off, page_id, method,
                   data_parts, attempt, resp, raised, history_vars>>

\* A document is read: no delivery is in hand, the anchor counter is 1.
WalkInit ==
    /\ walker \in Walkers
    /\ client = walker
    /\ wpc = "fields"
    /\ field_i = 1
    /\ seg_i = 1
    /\ out = << >>
    /\ segment_list = << >>
    /\ note = NoNote
    /\ all_segment = << >>
    /\ node = PardefNode
    /\ walked = 0
    /\ attempts = 0
    /\ malformed = FALSE
    /\ wire = << >>
    /\ dxl = NoDxl
    /\ files = NoFiles
    /\ pc = "idle"
    /\ started = 0
    /\ created = 0
    /\ page_payload = NoPayload
    /\ restSeg = << >>
    /\ off = 0
    /\ page_id = FALSE
    /\ method = "POST"
    /\ data_parts = NoParts
    /\ attempt = 0
    /\ resp = NoResponse
    /\ raised = ""
    /\ requests_log = << >>
    /\ sent = NoSent
    /\ answers = NoAnswers
    /\ sleeps = 0
    /\ last_wait = 0

\* A child element is malformed: an element the walk does not know, or a
\* picture whose data is missing or does not decode.
IsMalformed(child) ==
    \/ child.tag \notin {"par", "table"}
    \/ /\ child.tag = "par"
       /\ child.attrefs = << >>
       /\ child.pictures # << >>
       /\ child.pictures[1] \in {UndecodablePicture, EmptyGifPicture}

\* create_materials_from_dxl: the document has no item of this name.
FieldAbsent ==
    /\ walker = "services"
    /\ wpc = "fields"
    /\ field_i <= Len(RICH_FIELDS)
    /\ field_i' = field_i + 1
    /\ UNCHANGED <<walker, wpc, seg_i, out, segment_list, note, all_segment,
                   node, walked, attempts, malformed, wire>>
    /\ UNCHANGED <<client, page_payload, delivery_vars>>
    /\ UNCHANGED <<dxl, files>>

\* Mutant of EnterField: the anchor counter restarts with each field.
EnterFieldRestartsCounter ==
    /\ walker = "services"
    /\ wpc = "fields"
    /\ field_i <= Len(RICH_FIELDS)
    /\ wpc' = "nodes"
    /\ out' = << >>
    /\ segment_list' = << >>
    /\ seg_i' = 1
    /\ UNCHANGED <<walker, field_i, note, all_segment, node, walked,
                   attempts, malformed, wire>>
    /\ UNCHANGED <<client, page_payload, delivery_vars>>
    /\ UNCHANGED <<dxl, files>>

\* richtext_item_to_html_and_segment is entered for the item of the field.
EnterField ==
    /\ walker = "services"
    /\ wpc = "fields"
    /\ field_i <= Len(RICH_FIELDS)
    /\ wpc' = "nodes"
    /\ out' = << >>
    /\ segment_list' = << >>
    /\ UNCHANGED <<walker, field_i, seg_i, note, all_segment, node, walked,
                   attempts, malformed, wire>>
    /\ UNCHANGED <<client, page_payload, delivery_vars>>
    /\ UNCHANGED <<dxl, files>>

\* One child of the richtext element is handled.
WalkNode ==
    /\ walker = "services"
    /\ wpc = "nodes"
    /\ walked < MaxNodes
    /\ \E child \in Nodes :
        LET st == WalkChild(child, Locals(out, segment_list, seg_i, attempts))
        IN /\ node' = child
           /\ out' = st.out
           /\ segment_list' = st.segment_list
           /\ seg_i' = st.seg_i
           /\ attempts' = st.attempts
           /\ malformed' = (malformed \/ IsMalformed(child))
    /\ walked' = walked + 1
    /\ UNCHANGED <<walker, wpc, field_i, note, all_segment, wire>>
    /\ UNCHANGED <<client, page_payload, delivery_vars>>
    /\ UNCHANGED <<dxl, files>>

\* Mutant of ReturnField: the field's segments go in front of the list.
ReturnFieldPrepends ==
    /\ walker = "services"
    /\ wpc = "nodes"
    /\ note' = [note EXCEPT ![RICH_FIELDS[field_i]] = out]
    /\ all_segment' = segment_list \o all_segment
    /\ field_i' = field_i + 1
    /\ wpc' = "fields"
    /\ UNCHANGED <<walker, seg_i, out, segment_list, node, walked, attempts,
                   malformed, wire>>
    /\ UNCHANGED <<client, page_payload, delivery_vars>>
    /\ UNCHANGED <<dxl, files>>

\* The field's markup is written to the note and its segments are added.
ReturnField ==
    /\ walker = "services"
    /\ wpc = "nodes"
    /\ note' = [note EXCEPT ![RICH_FIELDS[field_i]] = out]
    /\ all_segment' = all_segment \o segment_list
    /\ field_i' = field_i + 1
    /\ wpc' = "fields"
    /\ UNCHANGED <<walker, seg_i, out, segment_list, node, walked, attempts,
                   malformed, wire>>
    /\ UNCHANGED <<client, page_payload, delivery_vars>>
    /\ UNCHANGED <<dxl, files>>

\* build_page_payload: the walk is over, the renderer assembles the body.
BuildPayload ==
    /\ walker = "services"
    /\ wpc = "fields"
    /\ field_i > Len(RICH_FIELDS)
    /\ page_payload' = build_page_payload(note, all_segment)
    /\ wpc' = "built"
    /\ UNCHANGED <<walker, field_i, seg_i, out, segment_list, note, all_segment,
                   node, walked, attempts, malformed, wire>>
    /\ UNCHANGED <<client, delivery_vars>>
    /\ UNCHANGED <<dxl, files>>

\* create_onenote_page with every request answered by a success.
Deliver ==
    /\ wpc = "built"
    /\ wire' = DeliveryRequests(page_payload)
    /\ wpc' = "delivered"
    /\ UNCHANGED <<walker, field_i, seg_i, out, segment_list, note, all_segment,
                   node, walked, attempts, malformed>>
    /\ UNCHANGED <<client, page_payload, delivery_vars>>
    /\ UNCHANGED <<dxl, files>>

\* dxl_to_onenote_payload, image pass: the document has no item of this name.
LegacyFieldAbsent ==
    /\ walker = "legacy"
    /\ wpc = "fields"
    /\ field_i <= Len(rich_fields)
    /\ field_i' = field_i + 1
    /\ UNCHANGED <<walker, wpc, seg_i, out, segment_list, note, all_segment,
                   node, walked, attempts, malformed, wire>>
    /\ UNCHANGED <<client, page_payload, delivery_vars>>
    /\ UNCHANGED <<dxl, files>>

\* _richtext_item_to_html_and_parts is entered for the item of the field.
LegacyEnterField ==
    /\ walker = "legacy"
    /\ wpc = "fields"
    /\ field_i <= Len(rich_fields)
    /\ wpc' = "nodes"
    /\ out' = << >>
    /\ segment_list' = << >>
    /\ UNCHANGED <<walker, field_i, seg_i, note, all_segment, node, walked,
                   attempts, malformed, wire>>
    /\ UNCHANGED <<client, page_payload, delivery_vars>>
    /\ UNCHANGED <<dxl, files>>

\* One child of the richtext element is handled by the older walker: its
\* markup and parts are added, or the decoding raises and the exception
\* leaves dxl_to_onenote_payload.
LegacyWalkNode ==
    /\ walker = "legacy"
    /\ wpc = "nodes"
    /\ walked < MaxNodes
    /\ \E child \in Nodes :
        LET st == LegacyWalkChild(child, rich_fields[field_i], NoSlots,
                                  LegacyLocals(out, segment_list, FALSE))
        IN /\ node' = child
           /\ dxl' = [dxl EXCEPT ![rich_fields[field_i]] = Append(@, child)]
           /\ malformed' = (malformed \/ IsMalformed(child))
           /\ \/ /\ ~st.raises
                 /\ out' = st.out
                 /\ segment_list' = st.parts
                 /\ wpc' = "nodes"
              \/ /\ st.raises
                 /\ wpc' = "raised"
                 /\ UNCHANGED <<out, segment_list>>
    /\ walked' = walked + 1
    /\ UNCHANGED <<walker, field_i, seg_i, note, all_segment, attempts, wire>>
    /\ UNCHANGED <<client, page_payload, delivery_vars, files>>

\* The field's markup replaces the note's value and its parts are added.
LegacyReturnField ==
    /\ walker = "legacy"
    /\ wpc = "nodes"
    /\ note' = [note EXCEPT ![rich_fields[field_i]] = out]
    /\ all_segment' = all_segment \o segment_list
    /\ field_i' = field_i + 1
    /\ wpc' = "fields"
    /\ UNCHANGED <<walker, seg_i, out, segment_list, node, walked, attempts,
                   malformed, wire>>
    /\ UNCHANGED <<client, page_payload, delivery_vars>>
    /\ UNCHANGED <<dxl, files>>

\* dxl_to_onenote_payload after the image pass: the slots are assigned,
\* the fields are rendered again and the parts are cut to the ceiling.
LegacyBuildPayload ==
    /\ walker = "legacy"
    /\ wpc = "fields"
    /\ field_i > Len(rich_fields)
    /\ LET r == dxl_to_onenote_payload(dxl, note, all_segment)
       IN /\ note' = r.note
          /\ all_segment' = r.parts
    /\ wpc' = "payload"
    /\ UNCHANGED <<walker, field_i, seg_i, out, segment_list, node, walked,
                   attempts, malformed, wire, dxl, files>>
    /\ UNCHANGED <<client, page_payload, delivery_vars>>

\* main(): the body is rendered from the note and the page is created.
LegacyCreatePage ==
    /\ walker = "legacy"
    /\ wpc = "payload"
    /\ files' = create_files(render_incident_like_page(note), all_segment)
    /\ wpc' = "posted"
    /\ UNCHANGED <<walker, field_i, seg_i, out, segment_list, note, all_segment,
                   node, walked, attempts, malformed, wire, dxl>>
    /\ UNCHANGED <<client, page_payload, delivery_vars>>

WalkNext ==
    \/ FieldAbsent
    \/ EnterField
    \/ WalkNode
    \/ ReturnField
    \/ BuildPayload
    \/ Deliver
    \/ LegacyFieldAbsent
    \/ LegacyEnterField
    \/ LegacyWalkNode
    \/ LegacyReturnField
    \/ LegacyBuildPayload
    \/ LegacyCreatePage

WalkSpec == WalkInit /\ [][WalkNext]_vars

\* ------------------------------------------------------- claim vocabulary

\* ceil(n / c) for n >= 0, c > 0.
CeilDiv(n, c) == (n + c - 1) \div c

\* The anchor ids of a segment list, in order.
SegmentIds(segments) == [i \in 1..Len(segments) |-> segments[i].segment_id]

\* The anchor ids carried as binary parts by log entries 1..n, in request
\* order.
RECURSIVE SentIds(_, _)
SentIds(log, n) ==
    IF n = 0 THEN << >>
    ELSE SentIds(log, n - 1) \o [j \in 1..Len(log[n].bins) |-> log[n].bins[j].segment_id]

\* The sizes of the chunks, in request order.
ChunkSizes(log) == [r \in 1..Len(log) |-> Len(log[r].bins)]

\* The segment count N of the record in delivery.
N == Len(page_payload.segment_list)

\* The slots (request, part) of successful requests that carry anchor id.
CarriedIn(log, id) ==
    {<<r, j>> \in (1..Len(log)) \X (1..MaxSegments + 1) :
        /\ j <= Len(log[r].bins)
        /\ log[r].outcome = "ok"
        /\ log[r].bins[j].segment_id = id}

Ended == pc \in {"raised", "aborted"}

\* ----------------------------------------------------------------- claims

C2_NeverOverCeiling ==
    /\ Len(data_parts.bins) <= Ceiling(client)
    /\ \A r \in 1..Len(requests_log) : Len(requests_log[r].bins) <= Ceiling(client)

C2_Witness ==
    /\ pc = "recv"
    /\ N > Ceiling(client)
    /\ Len(data_parts.bins) = Ceiling(client)
    /\ client = "services"
    /\ method = "POST"

\* C3: an append PATCH is sent only after a create POST was answered with
\* success and its page id was read; while no page id was read (the create
\* is still running or has failed) no append request exists at all.
C3_CreateBeforeAppend ==
    /\ (sent.PATCH > 0 \/ Len(requests_log) > 1) => (page_id /\ answers.success >= 1)
    /\ (Ended /\ ~page_id) =>
            /\ sent.PATCH = 0
            /\ Len(requests_log) = 1
            /\ requests_log[1].method = "POST"

C3_Witness ==
    /\ client = "services"
    /\ pc = "raised"
    /\ raised = "Unauthorized"
    /\ ~page_id
    /\ N > MAX_BIN_PER_REQUEST
    /\ sent.PATCH = 0

\* C4: for a record of N <= C segments the rest list is empty and the
\* create POST is the only logical request: no PATCH is ever sent.
C4_NoAppendWithinCeiling ==
    (client = "services" /\ started > 0 /\ N <= MAX_BIN_PER_REQUEST) =>
        /\ restSeg = << >>
        /\ sent.PATCH = 0
        /\ Len(requests_log) = 1
        /\ requests_log[1].method = "POST"

C4_Witness ==
    /\ client = "services"
    /\ pc = "returned"
    /\ N = MAX_BIN_PER_REQUEST
    /\ sent.PATCH = 0
    /\ Len(requests_log) = 1

\* C5: when create_onenote_page (services) returns, every segment of the
\* payload is a binary part of exactly one successful request.
C5_EachSegmentOnce ==
    (client = "services" /\ pc = "returned") =>
        \A i \in 1..N :
            Cardinality(CarriedIn(requests_log, page_payload.segment_list[i].segment_id)) = 1

C5_Witness ==
    /\ client = "services"
    /\ pc = "returned"
    /\ N > MAX_BIN_PER_REQUEST
    /\ Len(page_payload.body_html) > N
    /\ Len(requests_log) = 2

\* C6: every 429/503 response makes the call sleep once, for the seconds
\* the Retry-After header indicates (the policy default when it is absent),
\* and go round the loop again with the same request; the call ends on
\* such a response only by the retry bound running out.
C6_RetryableSleepsAndResends ==
    /\ [][(pc = "recv" /\ resp.status \in {429, 503}) =>
            /\ pc' = "loop"
            /\ sleeps' = sleeps + 1
            /\ resp.retry_after.form = "absent" => last_wait' = default_retry_after
            /\ resp.retry_after.form = "seconds" => last_wait' = resp.retry_after.seconds
            /\ attempt' = attempt + 1
            /\ method' = method
            /\ data_parts' = data_parts]_vars
    /\ [][(pc = "loop" /\ attempt > max_retries) =>
            (pc' = "raised" /\ raised' = "RetriesExhausted")]_vars

\* C7: a 401 ends the call at once on the attempt that received it: the
\* call raises, nothing is sent and no sleep is made after it; received on
\* the first attempt, it leaves one request sent and zero retries.
C7_UnauthorizedIsImmediate ==
    /\ [][(pc = "recv" /\ resp.status = 401) =>
            /\ pc' = "raised"
            /\ raised' = "Unauthorized"
            /\ sent' = sent
            /\ sleeps' = sleeps
            /\ attempt' = attempt]_vars
    /\ [][Ended => (Ended' /\ sent' = sent /\ sleeps' = sleeps)]_vars
    /\ []((Ended /\ resp.status = 401) =>
            (raised = "Unauthorized" /\ sleeps = attempt - 1))

C7_Witness ==
    /\ pc = "raised"
    /\ raised = "Unauthorized"
    /\ attempt = 1
    /\ sent = [POST |-> 1, PATCH |-> 0]
    /\ sleeps = 0

\* C8: an error response other than 429, 503 and 401 ends the call on the
\* attempt that received it: the call raises the HTTP error, and nothing is
\* sent and no sleep is made after it.
C8_OtherErrorNotRetried ==
    /\ [][(pc = "recv" /\ resp.status >= 400 /\ resp.status \notin {429, 503, 401}) =>
            /\ pc' = "raised"
            /\ raised' = "HTTPError"
            /\ sent' = sent
            /\ sleeps' = sleeps
            /\ attempt' = attempt]_vars
    /\ [][Ended => (Ended' /\ sent' = sent /\ sleeps' = sleeps)]_vars
    /\ []((Ended /\ resp.status >= 400 /\ resp.status \notin {429, 503, 401}) =>
            raised = "HTTPError")

C8_Witness ==
    /\ pc = "raised"
    /\ raised = "HTTPError"
    /\ resp.status = 500
    /\ attempt = 2
    /\ sleeps = 1

\* C9: once a create POST was answered 429/503 one or more times and then
\* with success, exactly one POST has been answered with success and every
\* POST sent for the record is one of those retried ones or the successful
\* one: no create POST follows the success, up to the end of the record.
C9_OnePageAfterRetries ==
    (answers.retryable >= 1 /\ answers.success >= 1) =>
        /\ answers.success = 1
        /\ sent.POST = answers.retryable + 1
        /\ sent.POST <= max_retries

C9_Witness ==
    /\ client = "services"
    /\ pc = "returned"
    /\ answers.retryable >= 2
    /\ answers.success = 1
    /\ sent.PATCH > 0

\* C10: when an append fails after a successful create, the call has raised
\* on the failed chunk, which is the last request made; the requests before
\* it succeeded and delivered a prefix of the segment list, no later chunk
\* was sent, the page was created once, and nothing is sent afterwards.
C10_FailedAppendLeavesPrefix ==
    /\ []((Ended /\ page_id) =>
            LET k == Len(requests_log) IN
            /\ k >= 2
            /\ requests_log[k].method = "PATCH"
            /\ requests_log[k].outcome = "failed"
            /\ \A r \in 1..(k - 1) : requests_log[r].outcome = "ok"
            /\ SentIds(requests_log, k - 1)
                  = SubSeq(SegmentIds(page_payload.segment_list), 1,
                           MAX_BIN_PER_REQUEST * (k - 1))
            /\ SentIds(requests_log, k)
                  = SubSeq(SegmentIds(page_payload.segment_list), 1,
                           Min(N, MAX_BIN_PER_REQUEST * k))
            /\ answers.success = 1
            /\ sent.POST = answers.retryable + 1)
    /\ [][Ended => (Ended' /\ sent' = sent /\ requests_log' = requests_log)]_vars

C10_Witness ==
    /\ pc = "raised"
    /\ page_id
    /\ N = 7
    /\ Len(requests_log) = 2
    /\ requests_log[1].outcome = "ok"
    /\ requests_log[2].outcome = "failed"

\* -------------------------------------------------- claims about the walk

\* The anchor ids of the empty placeholders of a body, in body order.
RECURSIVE PlaceholderIds(_, _)
PlaceholderIds(body, k) ==
    IF k = 0 THEN << >>
    ELSE PlaceholderIds(body, k - 1)
            \o (IF body[k].data_id # 0 /\ body[k].inner = << >>
                THEN <<body[k].data_id>> ELSE << >>)

\* The elements of a sequence of ids that are in a set, in order.
RECURSIVE Restrict(_, _, _)
Restrict(ids, keep, k) ==
    IF k = 0 THEN << >>
    ELSE Restrict(ids, keep, k - 1) \o (IF ids[k] \in keep THEN <<ids[k]>> ELSE << >>)

Range(seq) == {seq[k] : k \in 1..Len(seq)}

\* The payload of the services pipeline has been built.
Built == walker = "services" /\ wpc \in {"built", "delivered"}

\* C11: the body of the PagePayload built by build_page_payload holds
\* exactly one empty placeholder for each Segment of the segment list, and
\* these placeholders stand in the body in the order of the list.
C11_PlaceholderPerSegmentInOrder ==
    Built =>
        LET body == page_payload.body_html
            ids == SegmentIds(page_payload.segment_list)
        IN Restrict(PlaceholderIds(body, Len(body)), Range(ids),
                    Len(PlaceholderIds(body, Len(body)))) = ids

\* The placeholders the walk has emitted: those of the fields already
\* written to the note and those of the field in hand.
RECURSIVE NotePlaceholders(_, _)
NotePlaceholders(n, k) ==
    IF k = 0 THEN 0
    ELSE NotePlaceholders(n, k - 1)
            + Len(PlaceholderIds(n[RICH_FIELDS[k]], Len(n[RICH_FIELDS[k]])))

EmittedPlaceholders ==
    NotePlaceholders(note, Len(RICH_FIELDS))
        + (IF wpc = "nodes" THEN Len(PlaceholderIds(out, Len(out))) ELSE 0)

\* The Segments the walk has produced so far.
ProducedSegments ==
    all_segment \o (IF wpc = "nodes" THEN segment_list ELSE << >>)

Rising(ids) == \A k \in 1..Len(ids) - 1 : ids[k] < ids[k + 1]

\* C13: the segments the walk produces are listed in traversal order (the
\* anchor counter is handed out in that order, so their ids rise), the
\* payload carries that list, and the binary parts of the create request
\* followed by those of the appends carry it in the same order.
C13_SegmentOrderIsTraversalOrder ==
    walker = "services" =>
        /\ Rising(SegmentIds(ProducedSegments))
        /\ Built => page_payload.segment_list = all_segment
        /\ wpc = "delivered" =>
                SentIds(wire, Len(wire)) = SegmentIds(all_segment)

\* Eight segments from two fields went out in a create and two appends.
C13_Witness ==
    /\ walker = "services"
    /\ wpc = "delivered"
    /\ Len(wire) = 3
    /\ Len(all_segment) = 8
    /\ note["Agenda"] # << >>
    /\ note["Reason"] # << >>

\* The anchor ids the walk has emitted, field after field, then those of
\* the field in hand.
RECURSIVE NoteAnchors(_, _)
NoteAnchors(n, k) ==
    IF k = 0 THEN << >>
    ELSE NoteAnchors(n, k - 1)
            \o PlaceholderIds(n[RICH_FIELDS[k]], Len(n[RICH_FIELDS[k]]))

EmittedAnchors ==
    NoteAnchors(note, Len(RICH_FIELDS))
        \o (IF wpc = "nodes" THEN PlaceholderIds(out, Len(out)) ELSE << >>)

\* C14: the anchor ids the walker has emitted for one document are pairwise
\* distinct, across fields as well as within a field.
C14_AnchorsDistinct ==
    walker = "services" =>
        LET anchors == EmittedAnchors
        IN \A j, k \in 1..Len(anchors) : j # k => anchors[j] # anchors[k]

\* Two fields of the document each hold anchors.
C14_Witness ==
    /\ walker = "services"
    /\ wpc = "fields"
    /\ PlaceholderIds(note["Detail"], Len(note["Detail"])) # << >>
    /\ PlaceholderIds(note["Temporary"], Len(note["Temporary"])) # << >>
    /\ Len(EmittedAnchors) >= 5

\* A paragraph with one attachment reference that does not resolve, and one
\* with an unresolved reference followed by a resolved one.
UnresolvedPar == Par("see", << >>, <<"gone.pdf">>)
UnresolvedThenResolvedPar == Par("see", << >>, <<"gone.pdf", "a.xlsx">>)

\* The services walker handles a child element in this step.
HandlesChild == walker = "services" /\ wpc = "nodes" /\ walked' = walked + 1

\* The anchors the walk emitted that no Segment stands for.
UnresolvedAnchors == Range(EmittedAnchors) \ Range(SegmentIds(all_segment))

\* The anchor ids the commands of a request target.
Targets(parts) == {parts.commands[k].target : k \in 1..Len(parts.commands)}

\* The anchor ids whose placeholder a body holds filled.
Filled(body) == {body[k].data_id : k \in {j \in 1..Len(body) : body[j].inner # << >>}}

\* C15: an attachment reference that does not resolve still gets its
\* placeholder at its position and takes an anchor number, gives no
\* Segment, and the walk goes on; no create substitution fills that
\* placeholder and no append command targets it.
C15_UnresolvedKeepsPlaceholder ==
    /\ [][(HandlesChild /\ node' = UnresolvedPar) =>
            /\ out' = Append(out, Placeholder(seg_i))
            /\ segment_list' = segment_list
            /\ seg_i' = seg_i + 1
            /\ wpc' = "nodes"]_vars
    /\ [][(HandlesChild /\ node' = UnresolvedThenResolvedPar) =>
            /\ out' = out \o <<Placeholder(seg_i), Placeholder(seg_i + 1)>>
            /\ segment_list' = Append(segment_list,
                    [segment_id |-> seg_i + 1, kind |-> "attachment"])
            /\ seg_i' = seg_i + 2
            /\ wpc' = "nodes"]_vars
    /\ []((walker = "services" /\ wpc = "delivered") =>
            \A a \in UnresolvedAnchors :
                /\ a \notin Filled(wire[1].body_html) \ {0}
                /\ \A r \in 1..Len(wire) :
                    /\ a \notin Targets(wire[r])
                    /\ \A j \in 1..Len(wire[r].bins) : wire[r].bins[j].segment_id # a)

\* The last paragraph of Detail held an unresolved reference (anchor 5) and
\* a resolved one (anchor 6); the page went out in a create and an append,
\* and the body of the create still holds anchor 5 empty.
C15_Witness ==
    /\ walker = "services"
    /\ wpc = "delivered"
    /\ node = UnresolvedThenResolvedPar
    /\ Len(wire) = 2
    /\ 5 \in UnresolvedAnchors
    /\ 5 \in Range(PlaceholderIds(wire[1].body_html, Len(wire[1].body_html)))
    /\ 6 \in Targets(wire[2])

\* A picture has a child in a supported raster encoding.
SupportedEncoding(pic) == \E c \in 1..Len(pic) : pic[c].tag \in BINARY_TAG_TO_MIME

\* The first child of a picture in a supported encoding that carries data
\* (0 if there is none).
FirstUsable(pic) ==
    LET usable == {c \in 1..Len(pic) :
                        pic[c].tag \in BINARY_TAG_TO_MIME /\ pic[c].data # ""}
    IN IF usable = {} THEN 0
       ELSE CHOOSE c \in usable : \A d \in usable : c <= d

\* The picture gives bytes: its first usable child decodes.
Extractable(pic) ==
    FirstUsable(pic) # 0 /\ pic[FirstUsable(pic)].data \in WellFormedB64

\* The older walker handles a child element in this step.
LegacyHandlesChild == walker = "legacy" /\ wpc = "nodes" /\ walked' = walked + 1

C17_NoSegmentsOneBareCreate ==
    (client = "services" /\ started > 0 /\ N = 0) =>
        /\ Len(requests_log) = 1
        /\ requests_log[1].method = "POST"
        /\ requests_log[1].bins = << >>
        /\ sent.PATCH = 0
        /\ data_parts.doc = "Presentation"
        /\ data_parts.bins = << >>
        /\ data_parts.body_html = page_payload.body_html

\* A record with no segment, whose body holds one unresolved placeholder,
\* was created.
C17_Witness ==
    /\ client = "services"
    /\ pc = "returned"
    /\ N = 0
    /\ page_payload.body_html = <<Placeholder(1)>>
    /\ requests_log[1].outcome = "ok"

\* What the create request leaves untouched: only placeholders of
\* first-chunk segments are filled, every other element of the body is as
\* build_page_payload gave it.
CreateLeavesOthersUntouched ==
    (walker = "services" /\ wpc = "delivered") =>
        LET sent_body == wire[1].body_html
            first_ids == Range(SegmentIds(FirstSeg(all_segment)))
        IN /\ Len(sent_body) = Len(page_payload.body_html)
           /\ Filled(sent_body) \ {0} \subseteq first_ids
           /\ \A k \in 1..Len(sent_body) :
                sent_body[k].data_id \notin first_ids
                    => sent_body[k] = page_payload.body_html[k]

\* Every command of an append targets an anchor that the body of the
\* create request holds as an empty placeholder.
AppendTargetsExist ==
    (walker = "services" /\ wpc = "delivered") =>
        \A r \in 2..Len(wire) :
            Targets(wire[r]) \subseteq
                Range(PlaceholderIds(wire[1].body_html, Len(wire[1].body_html)))

\* C18: in the body the create request sends, only placeholders of
\* first-chunk segments are filled and the placeholder of every later
\* segment and of every unresolved reference is untouched, so that every
\* command of a later append targets an anchor the created page holds
\* unchanged.
C18_CreateFillsOnlyFirstChunk ==
    CreateLeavesOthersUntouched /\ AppendTargetsExist

\* An append request is in hand.
AppendInHand == client = "services" /\ method = "PATCH" /\ pc \in {"loop", "recv", "ret"}

\* C19: the append request for a chunk of k segments holds k commands in
\* chunk order and k binary parts; command i has action append, targets
\* the anchor of segment i of the chunk, and its content is the embed
\* markup whose source is the name of the part that holds segment i's
\* bytes, a name no other part of the request has.
C19_AppendRequestShape ==
    AppendInHand =>
        LET segs == page_payload.segment_list
            base == MAX_BIN_PER_REQUEST * (Len(requests_log) - 1)
            k == Len(data_parts.bins)
        IN /\ data_parts.doc = "Commands"
           /\ k = Min(MAX_BIN_PER_REQUEST, Len(segs) - base)
           /\ k >= 1
           /\ Len(data_parts.commands) = k
           /\ \A i \in 1..k :
                /\ data_parts.commands[i].action = "append"
                /\ data_parts.commands[i].target = segs[base + i].segment_id
                /\ data_parts.bins[i].segment_id = segs[base + i].segment_id
                /\ data_parts.commands[i].content.src = data_parts.bins[i].name
                /\ data_parts.commands[i].content.tag =
                        (IF segs[base + i].kind = "image" THEN "img" ELSE "object")
                /\ \A j \in 1..k : j # i =>
                        data_parts.bins[j].name # data_parts.bins[i].name

\* The first append of a record with seven segments returned: it held three
\* commands and three parts.
C19_Witness ==
    /\ AppendInHand
    /\ pc = "ret"
    /\ N = 7
    /\ Len(requests_log) = 2
    /\ Len(data_parts.commands) = 3
    /\ Len(data_parts.bins) = 3

\* A child element is handled in this step, by either walker.
AnyHandlesChild == wpc = "nodes" /\ walked' = walked + 1

\* Child elements that are well formed and have something to show.
WellFormedNodes ==
    TextNodes \cup {TableNode, Par("", <<PngPicture>>, << >>),
                    Par("see", << >>, <<"a.xlsx">>)}

\* The part of C20 that concerns the walker of the services pipeline.
ServicesSkipsMalformed ==
    /\ [](walker = "services" => wpc # "raised")
    /\ [][(HandlesChild /\ IsMalformed(node')) =>
            /\ wpc' = "nodes"
            /\ segment_list' = segment_list]_vars
    /\ [][(HandlesChild /\ node' \in WellFormedNodes) =>
            /\ wpc' = "nodes"
            /\ Len(out') > Len(out)
            /\ SubSeq(out', 1, Len(out)) = out]_vars

\* C20: a malformed or unknown child element is skipped and the walk is
\* not aborted: no exception leaves the walk, the malformed element gives
\* no segment, and every well-formed element, before or after it, is
\* rendered onto what was rendered so far.
C20_MalformedNodeSkipped ==
    /\ [](wpc # "raised")
    /\ [][(AnyHandlesChild /\ IsMalformed(node')) =>
            /\ wpc' = "nodes"
            /\ segment_list' = segment_list]_vars
    /\ [][(AnyHandlesChild /\ node' \in WellFormedNodes) =>
            /\ wpc' = "nodes"
            /\ Len(out') > Len(out)
            /\ SubSeq(out', 1, Len(out)) = out]_vars

\* ------------------------------------------- claims about batch and calls

\* C21: a record whose delivery fails fatally does not end the batch: the
\* loop of main() is never left through the exception while a record of
\* the batch is still unattempted.
C21_BatchContinuesAfterFailure ==
    ~(pc = "aborted" /\ started < MaxRecords)

\* main() is about to deliver the last record of the batch.
LiveInit ==
    /\ client \in Clients
    /\ pc = "idle"
    /\ started = MaxRecords - 1
    /\ created = MaxRecords - 1
    /\ page_payload = NoPayload
    /\ restSeg = << >>
    /\ off = 0
    /\ page_id = FALSE
    /\ method = "POST"
    /\ data_parts = NoParts
    /\ attempt = 0
    /\ resp = NoResponse
    /\ raised = ""
    /\ requests_log = << >>
    /\ sent = NoSent
    /\ answers = NoAnswers
    /\ sleeps = 0
    /\ last_wait = 0
    /\ NoWalk

\* The program is one thread that always takes its next step: a request
\* sent is answered or raises, a sleep ends.

LiveSpec == LiveInit /\ [][Next]_vars /\ WF_vars(Next)

\* _request_with_retry is running.
InRequest == pc \in {"loop", "recv"}

\* create_onenote_page is running.
InCreate == pc \in {"loop", "recv", "ret", "append_loop"}

\* Every started call ends, and no call goes beyond the retry bound.
CallsTerminate ==
    /\ [](attempt <= max_retries + 1)
    /\ [](pc = "recv" => attempt <= max_retries)
    /\ [](sent.POST <= max_retries)
    /\ InRequest ~> ~InRequest
    /\ InCreate ~> ~InCreate

\* C22 as stated: every started call ends within the retry bound, and
\* create_onenote_page makes at most 1 + ceil((N - C)/C) calls.
C22_TerminatesWithinStatedCalls ==
    /\ CallsTerminate
    /\ [](client = "services" =>
            Len(requests_log) <= 1 + CeilDiv(N - MAX_BIN_PER_REQUEST, MAX_BIN_PER_REQUEST))

\* C22 amended: every started call ends within the retry bound, and
\* create_onenote_page makes at most max(1, ceil(N/C)) calls: one for a
\* record without segments.
C22_TerminatesWithinCalls ==
    /\ CallsTerminate
    /\ [](client = "services" =>
            Len(requests_log) <=
                (IF N = 0 THEN 1 ELSE CeilDiv(N, MAX_BIN_PER_REQUEST)))

\* A record of seven segments was delivered in three calls, the create
\* having used every attempt of its budget.
C22_Witness ==
    /\ client = "services"
    /\ pc = "returned"
    /\ N = 7
    /\ Len(requests_log) = 3
    /\ sent.POST = max_retries

\* The part names that the filled placeholders of a body refer to.
BodyReferences(body) ==
    {body[k].inner[1].src :
        k \in {j \in 1..Len(body) : body[j].data_id # 0 /\ body[j].inner # << >>}}

\* The part names that the commands of a request refer to.
CommandReferences(parts) ==
    {parts.commands[k].content.src : k \in 1..Len(parts.commands)}

\* The names of the binary parts of a request.
BinNames(parts) == {parts.bins[j].name : j \in 1..Len(parts.bins)}

\* C23: in every create or append request the binary parts are named
\* p1..pk from p1 on, pairwise distinct and distinct from the Presentation
\* or Commands part, and every name that the body's embed markup or a
\* command refers to is the name of a binary part of that same request.
C23_PartNamesRequestLocal ==
    (walker = "services" /\ wpc = "delivered") =>
        \A r \in 1..Len(wire) :
            /\ \A j \in 1..Len(wire[r].bins) : wire[r].bins[j].name = PartName("p", j)
            /\ Cardinality(BinNames(wire[r])) = Len(wire[r].bins)
            /\ wire[r].doc \notin BinNames(wire[r])
            /\ BodyReferences(wire[r].body_html) \subseteq BinNames(wire[r])
            /\ CommandReferences(wire[r]) \subseteq BinNames(wire[r])

\* A create whose body refers to its parts was followed by two appends, and
\* the first append names its first part as the create did.
C23_Witness ==
    /\ walker = "services"
    /\ wpc = "delivered"
    /\ Len(wire) = 3
    /\ BodyReferences(wire[1].body_html) # {}
    /\ wire[2].bins[1].name = wire[1].bins[1].name
    /\ wire[2].bins[1].segment_id # wire[1].bins[1].segment_id

\* C24: from the moment create_onenote_page is called until it has
\* returned or raised, no step changes the PagePayload it was given: body
\* and segment list, contents and order, stay as they were.
C24_PayloadNotMutated ==
    [][pc # "idle" => page_payload' = page_payload]_vars

\* A record of seven segments failed in its second append; the payload is
\* still the one of seven segments and seven placeholders.
C24_Witness ==
    /\ client = "services"
    /\ pc = "raised"
    /\ method = "PATCH"
    /\ Len(requests_log) = 3
    /\ page_payload = PagePayload(7, 0)

\* ------------------------------------------ claims about the node handlers

NamedRefs(attrefs) == SelectSeq(attrefs, LAMBDA fn : fn # "")

\* What a handler step added to the markup of the field.
Added == SubSeq(out', Len(out) + 1, Len(out'))

\* C26: for a paragraph with attachment references the walker first emits
\* the paragraph's label text as rendered text and then, for each named
\* reference in order, one element; in the segmenting walker that element
\* is a placeholder, with one Attachment Segment when the name resolves.
C26_LabelThenPlaceholders ==
    [][(AnyHandlesChild /\ node'.tag = "par" /\ node'.attrefs # << >>
            /\ node'.text # "") =>
        LET refs == NamedRefs(node'.attrefs)
        IN /\ Len(Added) = 1 + Len(refs)
           /\ Added[1] = Markup("p", node'.text)
           /\ walker = "services" =>
                \A r \in 1..Len(refs) :
                    /\ Added[1 + r] = make_anchor(seg_i + r - 1)
                    /\ (refs[r] \in attachment_by_name) =
                        (\E s \in 1..Len(segment_list') :
                            segment_list'[s].segment_id = seg_i + r - 1)]_vars

\* C27: a plain-text paragraph becomes one text block, and an empty
\* paragraph becomes a block holding an explicit line break.
C27_EmptyParagraphKeepsLineBreak ==
    [][(AnyHandlesChild /\ node'.tag = "par" /\ node'.attrefs = << >>
            /\ node'.pictures = << >>) =>
        out' = Append(out, IF node'.text # "" THEN Markup("p", node'.text)
                           ELSE Markup("p", "<br/>"))]_vars

\* ------------------------------------------ claims about the single request

\* The names that the img and object elements of the markup embed.
EmbedReferences(field_html) ==
    {field_html[k[1]].inner[k[2]].src :
        k \in {e \in (1..Len(field_html)) \X (1..MaxCells + 1) :
                /\ e[2] <= Len(field_html[e[1]].inner)
                /\ field_html[e[1]].inner[e[2]].tag \in {"img", "object"}}}

\* The create request of the single-request path was built.
Posted == walker = "legacy" /\ wpc = "posted"

\* C28: in the single-request path every part that the markup of a rich
\* field embeds by name is among the parts of the create request, however
\* many pictures and attachments the record holds.
C28_EveryEmbedHasItsPart ==
    Posted =>
        \A f \in 1..Len(rich_fields) :
            EmbedReferences(note[rich_fields[f]]) \subseteq DOMAIN files.parts

\* ------------------------------------------ claims about the retry budget

\* A call of _request_with_retry is running or has just returned.
InCall == pc \in {"loop", "recv", "ret"}

\* HTTP requests the call in hand has sent: at the top of the loop the
\* attempt in hand is not sent yet.
CallRequests == IF pc = "loop" THEN attempt - 1 ELSE attempt

\* A call of _request_with_retry is entered.
CallEntered == pc \notin {"loop", "recv"} /\ pc' = "loop"

\* C29: the retry budget is per call.  Every call starts its attempt
\* counter at 1 with no sleep behind it, whatever the calls before it
\* used; a call sends at most max_retries HTTP requests, the first
\* included, so at most max_retries - 1 of them are re-sends; the create's
\* count is the number of POSTs the record sent; and an HTTP request goes
\* out only while the call's own counter is within the budget.
C29_RetryBudgetPerCall ==
    /\ [][CallEntered => (attempt' = 1 /\ sleeps' = 0)]_vars
    /\ [](InCall => (CallRequests <= max_retries /\ sleeps <= CallRequests))
    /\ []((InCall /\ CallRequests >= 1) => CallRequests - 1 <= max_retries - 1)
    /\ []((InCall /\ method = "POST") => sent.POST = CallRequests)
    /\ [][(pc # "idle" /\ sent' # sent) =>
            (pc = "loop" /\ attempt <= max_retries
                /\ sent'[method] = sent[method] + 1)]_vars

\* The create used its whole budget, four re-sends and a success at the
\* fifth request, and a later append has sent five requests of its own.
C29_Witness ==
    /\ client = "services"
    /\ sent.POST = max_retries
    /\ method = "PATCH"
    /\ pc = "recv"
    /\ attempt = max_retries
    /\ sleeps = max_retries - 1

\* C30: the anchor counter runs through all rich fields of a record and
\* rises by one with every placeholder emitted: the anchors emitted so far
\* are 1, 2, ..., K in emission order, the counter stands at K + 1, and
\* the segment ids of the Segments produced are a strictly rising
\* selection of them.
C30_AnchorsContiguous ==
    walker = "services" =>
        LET anchors == EmittedAnchors
            ids == SegmentIds(ProducedSegments)
        IN /\ \A k \in 1..Len(anchors) : anchors[k] = k
           /\ seg_i = Len(anchors) + 1
           /\ Rising(ids)
           /\ Range(ids) \subseteq 1..Len(anchors)

\* Two fields hold anchors, 1 in the first and 2, 3 in the second, and the
\* second anchor has no Segment.
C30_Witness ==
    /\ walker = "services"
    /\ wpc = "fields"
    /\ seg_i = 4
    /\ PlaceholderIds(note["Detail"], Len(note["Detail"])) = <<1>>
    /\ PlaceholderIds(note["Reason"], Len(note["Reason"])) = <<2, 3>>
    /\ SegmentIds(all_segment) = <<1, 3>>
====
